---- MODULE Spec2Model ----
(***************************************************************************)
(* Model of src/createlib.py: class RustProject, a thin driver of the      *)
(* cargo toolchain.  One instance, its four fields, the project directory  *)
(* it owns, and one action per public method.  Every subprocess.run and    *)
(* every filesystem call is an environment choice: it may succeed, exit    *)
(* non-zero (CalledProcessError) or fail to start (FileNotFoundError /     *)
(* OSError).  An exception that no handler of the method catches leaves    *)
(* the method at once (result = "raised") with the state as it then is.    *)
(*                                                                         *)
(* As shipped the file does not compile (the docstrings of write_code and  *)
(* cleanup are indented at the level of their def); the model follows the  *)
(* statements of the methods.                                              *)
(***************************************************************************)
EXTENDS Naturals, Sequences, FiniteSets

VARIABLES
    project_name,      \* self.project_name
    project_type,      \* self.project_type
    project_path,      \* self.project_path (None or the name)
    dependencies,      \* self.dependencies
    os_linesep,        \* os.linesep of the platform the program runs on
    fs,                \* the project directory on disk
    lastOp,            \* the method called last
    lastArg,           \* its argument (rust_code of write_code)
    procs,             \* subprocess.run calls made by that call, in order
    fsLog,             \* filesystem calls made by that call, in order
    diag,              \* messages printed by that call, in order
    result,            \* "returned" or "raised"
    exc,               \* the exception that left the call, or "none"
    pre,               \* fields and directory as they were when it was called
    initSinceCleanupCall,  \* history: cargo new succeeded, no cleanup() called since
    initSinceCleanupDone,  \* history: cargo new succeeded, no cleanup() removed the directory since
    cleanupDone            \* history: some cleanup() removed the directory

vars == <<project_name, project_type, project_path, dependencies, os_linesep,
          fs, lastOp, lastArg, procs, fsLog, diag, result, exc, pre,
          initSinceCleanupCall, initSinceCleanupDone, cleanupDone>>

----------------------------------------------------------------------------
\* Bounds and input sets

MaxDeps == 3

None == "None"
Names == {"demo"}
Kinds == {"lib", "bin", "exe"}
DepNames == {"serde", "rand"}
DepLists == UNION {[1..n -> DepNames] : n \in 0..MaxDeps}

LF == "LF"
CR == "CR"
Codes == {<< >>, <<"a">>, <<"a", LF, "b">>}
NoArg == <<"-">>
LineSeps == {<<LF>>, <<CR, LF>>}

Outcomes == {"ok", "nonzero", "notfound"}
FsOutcomes == {"ok", "oserror"}

SrcFiles == {"lib.rs", "main.rs"}
Absent == <<"absent">>
Template == <<"t">>
CurDir == "."

MsgNoCargo == "Error: Cargo is not installed. Please install Rust and Cargo."
MsgNotCreated == "Error: Rust project not created."
MsgCreate == "Error creating new Rust project"
MsgAdd == "Error adding dependency"
MsgRun == "Error running Rust code"

EmptyFs == [dir |-> FALSE, src |-> [f \in SrcFiles |-> Absent], manifest |-> << >>]

----------------------------------------------------------------------------
\* Helpers

\* one subprocess.run(cmd, check=True, cwd=cwd) and how it ended
Run(cmd, cwd, out) == [cmd |-> cmd, cwd |-> cwd, out |-> out]

\* one filesystem call and how it ended
FsCall(op, target, out) == [op |-> op, target |-> target, out |-> out]

\* what a method call amounts to
Outcome(path, disk, ps, fl, dg, res, e) ==
    [project_path |-> path, fs |-> disk, procs |-> ps, fsLog |-> fl,
     diag |-> dg, result |-> res, exc |-> e]

\* text-mode write: every "\n" of the text goes to disk as os.linesep
RECURSIVE Encode(_, _)
Encode(text, linesep) ==
    IF text = << >> THEN << >>
    ELSE (IF Head(text) = LF THEN linesep ELSE <<Head(text)>>)
         \o Encode(Tail(text), linesep)

\* the probe with the "return False" of its handler missing
check_cargo_installed_falls_through(out) ==
    [procs |-> <<Run(<<"cargo", "--version">>, CurDir, out)>>,
     diag  |-> IF out = "notfound" THEN <<MsgNoCargo>> ELSE << >>,
     ret   |-> out \in {"ok", "notfound"},
     exc   |-> IF out = "nonzero" THEN "CalledProcessError" ELSE "none"]

\* _check_cargo_installed: the probe, what it prints, what it returns
check_cargo_installed(out) ==
    [procs |-> <<Run(<<"cargo", "--version">>, CurDir, out)>>,
     diag  |-> IF out = "notfound" THEN <<MsgNoCargo>> ELSE << >>,
     ret   |-> out = "ok",
     exc   |-> IF out = "nonzero" THEN "CalledProcessError" ELSE "none"]

project_type_flag(kind) == IF kind = "lib" THEN "--lib" ELSE "--bin"

src_file_name(kind) == IF kind = "lib" THEN "lib.rs" ELSE "main.rs"

\* os.path.join(project_path, "src", src_file_name)
src_file_path(path, kind) == <<path, "src", src_file_name(kind)>>

\* the directory a successful "cargo new <flag> <name>" leaves behind
CargoNew(flag) ==
    [dir |-> TRUE,
     src |-> [f \in SrcFiles |->
                IF f = (IF flag = "--lib" THEN "lib.rs" ELSE "main.rs")
                THEN Template ELSE Absent],
     manifest |-> << >>]

\* the loop with the try inside it: every entry is attempted
AttemptedAll(outs) == Len(outs)

\* number of "cargo add" calls the loop makes: up to and including the first
\* one that does not succeed
Attempted(outs) ==
    IF \E i \in 1..Len(outs) : outs[i] # "ok"
    THEN CHOOSE i \in 1..Len(outs) :
            /\ outs[i] # "ok"
            /\ \A j \in 1..(i-1) : outs[j] = "ok"
    ELSE Len(outs)

\* the entries of deps whose "cargo add" ran and succeeded, in order
RECURSIVE Applied(_, _, _)
Applied(deps, outs, n) ==
    IF n = 0 THEN << >>
    ELSE Applied(deps, outs, n - 1)
         \o (IF outs[n] = "ok" THEN <<deps[n]>> ELSE << >>)

\* _add_dependencies, given how each "cargo add" would end
add_dependencies(deps, path, outs) ==
    IF deps = << >>
    THEN [procs |-> << >>, applied |-> << >>, diag |-> << >>, exc |-> "none"]
    ELSE LET n == Attempted(outs) IN
         [procs   |-> [i \in 1..n |-> Run(<<"cargo", "add", deps[i]>>, path, outs[i])],
          applied |-> Applied(deps, outs, n),
          diag    |-> IF outs[n] = "nonzero" THEN <<MsgAdd>> ELSE << >>,
          exc     |-> IF outs[n] = "notfound" THEN "FileNotFoundError" ELSE "none"]

\* the assignment placed before the "cargo new" call
PathAssignedFirst(out, name, old) == name

\* the assignment self.project_path = self.project_name, reached only when
\* "cargo new" did not raise
PathAfterNew(out, name, old) == IF out = "ok" THEN name ELSE old

\* self._add_dependencies() placed after the try statement
RunsAddDependenciesAlways(out) == out \in {"ok", "nonzero"}

\* self._add_dependencies() is the statement after it in the same try
RunsAddDependencies(out) == out = "ok"

\* create_project, given the outcome of the probe (po), of cargo new (no) and
\* of each cargo add (outs)
create_project_run(name, kind, deps, path, disk, po, no, outs) ==
    LET chk  == check_cargo_installed(po)
        new  == Run(<<"cargo", "new", project_type_flag(kind), name>>, CurDir, no)
        path1 == PathAfterNew(no, name, path)
        disk1 == IF no = "ok" THEN CargoNew(project_type_flag(kind)) ELSE disk
        add  == IF RunsAddDependencies(no)
                THEN add_dependencies(deps, path1, outs)
                ELSE [procs |-> << >>, applied |-> << >>, diag |-> << >>, exc |-> "none"]
        disk2 == [disk1 EXCEPT !.manifest = @ \o add.applied]
    IN  IF chk.exc # "none"
        THEN Outcome(path, disk, chk.procs, << >>, chk.diag, "raised", chk.exc)
        ELSE IF ~chk.ret
        THEN Outcome(path, disk, chk.procs, << >>, chk.diag, "returned", "none")
        ELSE IF no = "notfound"
        THEN Outcome(path1, disk2, chk.procs \o <<new>> \o add.procs, << >>,
                     add.diag, "raised", "FileNotFoundError")
        ELSE IF no = "nonzero"
        THEN Outcome(path1, disk2, chk.procs \o <<new>> \o add.procs, << >>,
                     <<MsgCreate>> \o add.diag, "returned", "none")
        ELSE Outcome(path1, disk2, chk.procs \o <<new>> \o add.procs, << >>,
                     add.diag,
                     IF add.exc = "none" THEN "returned" ELSE "raised", add.exc)

\* write_code, given how open()/write() ends (wo) and, when it fails, whether
\* the file was already truncated
write_code_run(kind, path, disk, linesep, rust_code, wo, truncated) ==
    IF path = None
    THEN Outcome(path, disk, << >>, << >>, <<MsgNotCreated>>, "returned", "none")
    ELSE LET f == src_file_name(kind)
             call == FsCall("write", src_file_path(path, kind), wo)
         IN  IF wo = "ok"
             THEN Outcome(path, [disk EXCEPT !.src[f] = Encode(rust_code, linesep)],
                          << >>, <<call>>, << >>, "returned", "none")
             ELSE Outcome(path,
                          IF truncated THEN [disk EXCEPT !.src[f] = << >>] ELSE disk,
                          << >>, <<call>>, << >>, "raised", "OSError")

\* build_and_run, given the outcome of the probe (po) and of cargo run (ro)
build_and_run_run(path, disk, po, ro) ==
    LET chk == check_cargo_installed(po)
        run == Run(<<"cargo", "run">>, path, ro)
    IN  IF path = None
        THEN Outcome(path, disk, << >>, << >>, <<MsgNotCreated>>, "returned", "none")
        ELSE IF chk.exc # "none"
        THEN Outcome(path, disk, chk.procs, << >>, chk.diag, "raised", chk.exc)
        ELSE IF ~chk.ret
        THEN Outcome(path, disk, chk.procs, << >>, chk.diag, "returned", "none")
        ELSE IF ro = "notfound"
        THEN Outcome(path, disk, chk.procs \o <<run>>, << >>, << >>,
                     "raised", "FileNotFoundError")
        ELSE Outcome(path, disk, chk.procs \o <<run>>, << >>,
                     IF ro = "nonzero" THEN <<MsgRun>> ELSE << >>,
                     "returned", "none")

\* cleanup, given how shutil.rmtree ends (ro) and, when it fails, whether it
\* had already deleted the source files
cleanup_run(path, disk, ro, partial) ==
    IF path = None
    THEN Outcome(path, disk, << >>, << >>, << >>, "returned", "none")
    ELSE LET call == FsCall("rmtree", <<path>>, ro) IN
         IF ro = "ok"
         THEN Outcome(None, EmptyFs, << >>, <<call>>, << >>, "returned", "none")
         ELSE Outcome(path,
                      IF partial THEN [disk EXCEPT !.src = [f \in SrcFiles |-> Absent]]
                      ELSE disk,
                      << >>, <<call>>, << >>, "raised", "OSError")

----------------------------------------------------------------------------
\* What the log of a call shows

NewSucceeded(ps) ==
    \E i \in 1..Len(ps) : ps[i].cmd[2] = "new" /\ ps[i].out = "ok"

NewFailed(ps) ==
    \E i \in 1..Len(ps) : ps[i].cmd[2] = "new" /\ ps[i].out = "nonzero"

RmtreeSucceeded(fl) ==
    \E i \in 1..Len(fl) : fl[i].op = "rmtree" /\ fl[i].out = "ok"

Snapshot == [project_name |-> project_name, project_type |-> project_type,
             project_path |-> project_path, dependencies |-> dependencies,
             fs |-> fs]

\* a call of method op with argument arg that amounts to r
Apply(op, arg, r) ==
    /\ lastOp' = op
    /\ lastArg' = arg
    /\ pre' = Snapshot
    /\ project_path' = r.project_path
    /\ fs' = r.fs
    /\ procs' = r.procs
    /\ fsLog' = r.fsLog
    /\ diag' = r.diag
    /\ result' = r.result
    /\ exc' = r.exc
    /\ initSinceCleanupCall' =
          IF op = "cleanup" THEN FALSE
          ELSE (initSinceCleanupCall \/ NewSucceeded(r.procs))
    /\ initSinceCleanupDone' =
          IF RmtreeSucceeded(r.fsLog) THEN FALSE
          ELSE (initSinceCleanupDone \/ NewSucceeded(r.procs))
    /\ cleanupDone' = (cleanupDone \/ RmtreeSucceeded(r.fsLog))
    /\ UNCHANGED <<project_name, project_type, dependencies, os_linesep>>

----------------------------------------------------------------------------
\* The instance after __init__, and the methods

Init ==
    /\ project_name \in Names
    /\ project_type \in Kinds
    /\ dependencies \in DepLists
    /\ project_path = None
    /\ os_linesep \in LineSeps
    /\ fs = EmptyFs
    /\ lastOp = "__init__"
    /\ lastArg = NoArg
    /\ procs = << >>
    /\ fsLog = << >>
    /\ diag = << >>
    /\ result = "returned"
    /\ exc = "none"
    /\ pre = [project_name |-> project_name, project_type |-> project_type,
              project_path |-> None, dependencies |-> dependencies, fs |-> EmptyFs]
    /\ initSinceCleanupCall = FALSE
    /\ initSinceCleanupDone = FALSE
    /\ cleanupDone = FALSE

\* how the "cargo add" calls of one create_project end: all succeed (k = 0),
\* or the k-th is the first that does not and ends as fo
AddOutcomes(n, k, fo) == [i \in 1..n |-> IF i = k THEN fo ELSE "ok"]

\* create_project that forgets the project when a dependency was not added
create_project_rollback ==
    \E po \in Outcomes, no \in Outcomes,
       k \in 0..Len(dependencies), fo \in Outcomes \ {"ok"} :
        /\ po # "ok" => no = "ok"
        /\ (po # "ok" \/ no # "ok") => k = 0
        /\ k = 0 => fo = "nonzero"
        /\ LET r == create_project_run(project_name, project_type, dependencies,
                                       project_path, fs, po, no,
                                       AddOutcomes(Len(dependencies), k, fo))
           IN  Apply("create_project", NoArg,
                     IF k # 0 THEN [r EXCEPT !.project_path = None] ELSE r)

\* A call that is not made has no outcome: the choices below fix the outcome
\* of every call that an earlier outcome rules out.
create_project ==
    \E po \in Outcomes, no \in Outcomes,
       k \in 0..Len(dependencies), fo \in Outcomes \ {"ok"} :
        /\ po # "ok" => no = "ok"
        /\ (po # "ok" \/ no # "ok") => k = 0
        /\ k = 0 => fo = "nonzero"
        /\ Apply("create_project", NoArg,
                 create_project_run(project_name, project_type, dependencies,
                                    project_path, fs, po, no,
                                    AddOutcomes(Len(dependencies), k, fo)))

write_code ==
    \E rust_code \in Codes, wo \in FsOutcomes, truncated \in BOOLEAN :
        /\ (project_path = None \/ wo = "ok") => ~truncated
        /\ project_path = None => wo = "ok"
        /\ Apply("write_code", rust_code,
                 write_code_run(project_type, project_path, fs, os_linesep,
                                rust_code, wo, truncated))

\* build_and_run that probes the toolchain before it looks at project_path
build_and_run_probes_first ==
    \E po \in Outcomes, ro \in Outcomes :
        /\ po # "ok" => ro = "ok"
        /\ LET r == build_and_run_run(project_path, fs, po, ro)
               chk == check_cargo_installed(po)
           IN  Apply("build_and_run", NoArg,
                     IF project_path = None
                     THEN [r EXCEPT !.procs = chk.procs \o @]
                     ELSE r)

\* build_and_run without the try around "cargo run"
build_and_run_reraises ==
    \E po \in Outcomes, ro \in Outcomes :
        /\ (project_path = None \/ po # "ok") => ro = "ok"
        /\ project_path = None => po = "ok"
        /\ LET r == build_and_run_run(project_path, fs, po, ro)
           IN  Apply("build_and_run", NoArg,
                     IF project_path # None /\ po = "ok" /\ ro = "nonzero"
                     THEN [r EXCEPT !.diag = << >>, !.result = "raised",
                                    !.exc = "CalledProcessError"]
                     ELSE r)

build_and_run ==
    \E po \in Outcomes, ro \in Outcomes :
        /\ (project_path = None \/ po # "ok") => ro = "ok"
        /\ project_path = None => po = "ok"
        /\ Apply("build_and_run", NoArg,
                 build_and_run_run(project_path, fs, po, ro))

\* cleanup that clears project_path before it removes the directory
cleanup_clears_first ==
    \E ro \in FsOutcomes, partial \in BOOLEAN :
        /\ (project_path = None \/ ro = "ok") => ~partial
        /\ project_path = None => ro = "ok"
        /\ Apply("cleanup", NoArg,
                 [cleanup_run(project_path, fs, ro, partial)
                    EXCEPT !.project_path = None])

\* cleanup that removes the directory and keeps project_path
cleanup_keeps_path ==
    \E ro \in FsOutcomes, partial \in BOOLEAN :
        /\ (project_path = None \/ ro = "ok") => ~partial
        /\ project_path = None => ro = "ok"
        /\ Apply("cleanup", NoArg,
                 [cleanup_run(project_path, fs, ro, partial)
                    EXCEPT !.project_path = project_path])

cleanup ==
    \E ro \in FsOutcomes, partial \in BOOLEAN :
        /\ (project_path = None \/ ro = "ok") => ~partial
        /\ project_path = None => ro = "ok"
        /\ Apply("cleanup", NoArg, cleanup_run(project_path, fs, ro, partial))

Next == create_project \/ write_code \/ build_and_run \/ cleanup

Spec == Init /\ [][Next]_vars

----------------------------------------------------------------------------
\* Properties

IsAdd(p) == p.cmd[2] = "add"
Adds(ps) == SelectSeq(ps, IsAdd)
Count(ps, sub) == Cardinality({i \in 1..Len(ps) : ps[i].cmd[2] = sub})
NeedsProject == {"write_code", "build_and_run", "cleanup"}

\* C1 (as stated): path is set exactly when a project initialization has
\* succeeded and cleanup has not been called since.
C1_PathIffInitAndNoCleanupCall ==
    (project_path # None) <=> initSinceCleanupCall

\* C1 (amended): path is set exactly when a project initialization has
\* succeeded and no cleanup call has removed the directory since; a cleanup
\* whose removal raises leaves path set.
C1_PathIffInitAndNoCleanupDone ==
    (project_path # None) <=> initSinceCleanupDone

C1_Witness ==
    /\ lastOp = "cleanup"
    /\ exc = "OSError"
    /\ project_path # None
    /\ initSinceCleanupDone

\* C2: with path absent, write_code, build_and_run and cleanup make no
\* filesystem call and no subprocess call (no version probe either) and leave
\* name, kind, dependencies, path and the directory as they were.
C2_NoProjectNoAction ==
    (lastOp \in NeedsProject /\ pre.project_path = None) =>
        /\ procs = << >>
        /\ fsLog = << >>
        /\ Snapshot = pre
        /\ result = "returned"

C2_Witness ==
    /\ lastOp = "build_and_run"
    /\ pre.project_path = None
    /\ cleanupDone
    /\ procs = << >>

\* C3: if the k-th "cargo add" of a create_project is the first to fail, the
\* calls made are those for entries 1..k in list order, the manifest holds
\* exactly entries 1..k-1, and no later entry is attempted.
C3_FirstFailureStops ==
    lastOp = "create_project" =>
        LET adds == Adds(procs) IN
        /\ Len(adds) <= Len(dependencies)
        /\ \A i \in 1..Len(adds) :
              /\ adds[i].cmd = <<"cargo", "add", dependencies[i]>>
              /\ adds[i].cwd = project_name
        /\ \A k \in 1..Len(adds) :
              adds[k].out # "ok" =>
                  /\ Len(adds) = k
                  /\ \A j \in 1..(k-1) : adds[j].out = "ok"
                  /\ fs.manifest = SubSeq(dependencies, 1, k - 1)

C3_Witness ==
    /\ lastOp = "create_project"
    /\ Len(dependencies) = 3
    /\ Len(Adds(procs)) = 2
    /\ Adds(procs)[2].out = "nonzero"
    /\ fs.manifest = <<dependencies[1]>>
    /\ dependencies[1] # dependencies[2]

C5_MissingToolchainStopsCreate ==
    (lastOp = "create_project" /\ procs # << >> /\ procs[1].out = "notfound") =>
        /\ result = "returned"
        /\ exc = "none"
        /\ diag = <<MsgNoCargo>>
        /\ procs = <<Run(<<"cargo", "--version">>, CurDir, "notfound")>>
        /\ fsLog = << >>
        /\ project_path = pre.project_path
        /\ fs = pre.fs

C5_Witness ==
    /\ lastOp = "create_project"
    /\ procs = <<Run(<<"cargo", "--version">>, CurDir, "notfound")>>
    /\ project_path = None
    /\ result = "returned"

\* C6: a create_project whose "cargo new" exits non-zero leaves path as it
\* was (unset on a project not yet created) and makes no "cargo add" call;
\* a "cargo add" call is made only by create_project, only with a non-empty
\* dependency list, and only after a "cargo new" of the same call succeeded.
C6_NoAddWithoutInit ==
    /\ (lastOp = "create_project" /\ NewFailed(procs)) =>
          /\ project_path = pre.project_path
          /\ Adds(procs) = << >>
          /\ fs = pre.fs
    /\ \A j \in 1..Len(procs) :
          IsAdd(procs[j]) =>
              /\ lastOp = "create_project"
              /\ dependencies # << >>
              /\ \E i \in 1..(j-1) :
                    procs[i].cmd[2] = "new" /\ procs[i].out = "ok"

C6_Witness ==
    /\ lastOp = "create_project"
    /\ NewFailed(procs)
    /\ dependencies # << >>
    /\ project_path = None
    /\ Adds(procs) = << >>

\* C7: for kind "lib" or "bin", a write_code(code) on a created project that
\* returns leaves src/lib.rs (lib) or src/main.rs (bin) holding exactly code,
\* and changes nothing else on disk.
C7_WritesCodeExactly ==
    (lastOp = "write_code" /\ pre.project_path # None /\ result = "returned"
        /\ project_type \in {"lib", "bin"}) =>
        LET f == IF project_type = "lib" THEN "lib.rs" ELSE "main.rs" IN
        /\ fsLog = <<FsCall("write", <<project_name, "src", f>>, "ok")>>
        /\ fs.src[f] = lastArg
        /\ \A g \in SrcFiles \ {f} : fs.src[g] = pre.fs.src[g]
        /\ fs.manifest = pre.fs.manifest
        /\ fs.dir = pre.fs.dir

C10_FailedAddKeepsProject ==
    /\ (lastOp = "create_project" /\ NewSucceeded(procs)) =>
          project_path = project_name
    /\ (lastOp \in NeedsProject /\ pre.project_path # None) =>
          /\ diag # <<MsgNotCreated>>
          /\ (procs # << >> \/ fsLog # << >>)

C10_Witness ==
    /\ lastOp = "write_code"
    /\ result = "returned"
    /\ fsLog # << >>
    /\ Len(fs.manifest) = 1
    /\ Len(dependencies) = 3

----------------------------------------------------------------------------
TypeOK ==
    /\ project_path \in {None} \cup Names
    /\ result \in {"returned", "raised"}
    /\ fs.dir \in BOOLEAN

====
